---- MODULE Spec2Model ----
(***************************************************************************)
(* A model of scripts/process.py: the pipeline that turns the content      *)
(* documents of an extracted e-book archive into article files and an      *)
(* ordered article list handed to the index and RSS generators.            *)
(*                                                                         *)
(* Text is modelled as a sequence of one-character strings, so that the    *)
(* string operations of the program (strip, lower, slicing, the regular    *)
(* expressions) are computed and not assumed.  A content document is a     *)
(* sequence of nodes in document order, each naming its parent (0 is the   *)
(* body element), which gives next_sibling, previous_sibling, parent,      *)
(* find_all and str() their meaning.                                       *)
(***************************************************************************)
EXTENDS Integers, Sequences, FiniteSets, TLC

(***************************************************************************)
(* Python string primitives.                                               *)
(***************************************************************************)
UpperChars == <<"A","B","C","D","E","F","G","H","I","J","K","L","M",
                "N","O","P","Q","R","S","T","U","V","W","X","Y","Z">>

LowerChars == <<"a","b","c","d","e","f","g","h","i","j","k","l","m",
                "n","o","p","q","r","s","t","u","v","w","x","y","z">>

DigitChars == <<"0","1","2","3","4","5","6","7","8","9">>

Range(s) == {s[i] : i \in 1..Len(s)}

\* \s of the regular expressions, and the characters str.strip() removes
IsSpace(c) == c \in {" ", "\t", "\n", "\r"}

IsDigit(c) == c \in Range(DigitChars)

\* \w of the regular expressions
IsWord(c) == c \in Range(UpperChars) \cup Range(LowerChars) \cup Range(DigitChars) \cup {"_"}

LowerChar(c) ==
  IF c \in Range(UpperChars)
    THEN LowerChars[CHOOSE i \in 1..Len(UpperChars) : UpperChars[i] = c]
    ELSE c

\* str.lower()
Lower(s) == [i \in 1..Len(s) |-> LowerChar(s[i])]

Min(S) == CHOOSE x \in S : \A y \in S : x <= y

Max(S) == 0 - Min({0 - x : x \in S})

\* s[:n]
Take(s, n) == IF Len(s) <= n THEN s ELSE SubSeq(s, 1, n)

\* s[n:] counted from 1: the text from position n on
From(s, n) == SubSeq(s, n, Len(s))

\* text `lit` stands in s at position p
HasAt(s, p, lit) ==
  /\ p >= 1
  /\ p + Len(lit) - 1 <= Len(s)
  /\ \A k \in 1..Len(lit) : s[p + k - 1] = lit[k]

\* a in b
Contains(a, b) == \E p \in 1..(Len(b) - Len(a) + 1) : HasAt(b, p, a)

\* str.strip()
Strip(s) ==
  LET keep == {i \in 1..Len(s) : ~IsSpace(s[i])}
  IN  IF keep = {} THEN <<>> ELSE SubSeq(s, Min(keep), Max(keep))

\* 1, 2, ..., n
Indices(n) == [i \in 1..n |-> i]

\* the characters of s at the positions `at`, in that order
AtPositions(s, at) == [k \in 1..Len(at) |-> s[at[k]]]

\* re.sub(r'[^...]', '', s): the characters of s that are in `keep`, in order
SelectChars(s, keep) == SelectSeq(s, LAMBDA c : c \in keep)

\* re.sub(r'\s+', ' ', s): every maximal run of whitespace becomes one blank
CollapseSpace(s) ==
  LET first == AtPositions(s, SelectSeq(Indices(Len(s)),
                   LAMBDA i : ~(IsSpace(s[i]) /\ i > 1 /\ IsSpace(s[i - 1]))))
  IN  [i \in 1..Len(first) |-> IF IsSpace(first[i]) THEN " " ELSE first[i]]

\* re.sub(r'-+', '-', s): every maximal run of hyphens becomes one hyphen
CollapseHyphen(s) ==
  AtPositions(s, SelectSeq(Indices(Len(s)),
                LAMBDA i : ~(s[i] = "-" /\ i > 1 /\ s[i - 1] = "-")))

\* s.replace(' ', '-')
SpaceToHyphen(s) == [i \in 1..Len(s) |-> IF s[i] = " " THEN "-" ELSE s[i]]

\* s.split('|')[-1]
LastPart(s) ==
  LET bars == {i \in 1..Len(s) : s[i] = "|"}
  IN  IF bars = {} THEN s ELSE From(s, Max(bars) + 1)

\* s.split('|')[0]
FirstPart(s) ==
  LET bars == {i \in 1..Len(s) : s[i] = "|"}
  IN  IF bars = {} THEN s ELSE SubSeq(s, 1, Min(bars) - 1)

\* str(n) of a non-negative integer
RECURSIVE Decimal(_)
Decimal(n) ==
  IF n < 10 THEN <<DigitChars[n + 1]>>
  ELSE Decimal(n \div 10) \o <<DigitChars[(n % 10) + 1]>>

\* c repeated n times
Fill(c, n) == [i \in 1..n |-> c]

(***************************************************************************)
(* Regular expressions.  A match is followed as the set of positions at    *)
(* which the next character would be read, so alternation, optional parts  *)
(* and repetition are all covered.                                         *)
(***************************************************************************)
\* a literal
ReLit(s, from, lit) == {p + Len(lit) : p \in {q \in from : HasAt(s, q, lit)}}

\* (a|b|...)
ReAlt(s, from, lits) == UNION {ReLit(s, from, lit) : lit \in lits}

\* \s+
ReSpaces(s, from) ==
  {e \in 2..(Len(s) + 1) : \E p \in from : p < e /\ \A k \in p..(e - 1) : IsSpace(s[k])}

\* \d{1,2}
ReDigits12(s, from) ==
  {e \in 2..(Len(s) + 1) :
     \E p \in from : (e - p) \in {1, 2} /\ \A k \in p..(e - 1) : IsDigit(s[k])}

MonthNames ==
  {<<"J","a","n","u","a","r","y">>,
   <<"F","e","b","r","u","a","r","y">>,
   <<"M","a","r","c","h">>,
   <<"A","p","r","i","l">>,
   <<"M","a","y">>,
   <<"J","u","n","e">>,
   <<"J","u","l","y">>,
   <<"A","u","g","u","s","t">>,
   <<"S","e","p","t","e","m","b","e","r">>,
   <<"O","c","t","o","b","e","r">>,
   <<"N","o","v","e","m","b","e","r">>,
   <<"D","e","c","e","m","b","e","r">>}

OrdinalSuffixes == {<<"s","t">>, <<"n","d">>, <<"r","d">>, <<"t","h">>}

\* ^(January|...|December)\s+\d{1,2}
DateHead(s) == ReDigits12(s, ReSpaces(s, ReAlt(s, {1}, MonthNames)))

\* re.match(r'^(January|...)\s+\d{1,2}', title) of create_article
StartsWithDate(s) == DateHead(s) # {}

\* re.match(r'^(January|...)\s+\d{1,2}(st|nd|rd|th)?,?\s+202[56]$', heading_text)
IsPureDate(s) ==
  LET day   == DateHead(s)
      ord   == day \cup ReAlt(s, day, OrdinalSuffixes)
      comma == ord \cup ReLit(s, ord, <<",">>)
      year  == ReAlt(s, ReLit(s, ReSpaces(s, comma), <<"2","0","2">>), {<<"5">>, <<"6">>})
  IN  \/ (Len(s) + 1) \in year
      \/ Len(s) \in year /\ s[Len(s)] = "\n"

\* A pattern that starts with a literal: literals, "ANY" for '.', "QUOTE" for ["\']
PatAt(s, p, pat) ==
  /\ p + Len(pat) - 1 <= Len(s)
  /\ \A k \in 1..Len(pat) :
       CASE pat[k] = "ANY"   -> s[p + k - 1] # "\n"
         [] pat[k] = "QUOTE" -> s[p + k - 1] \in {"\"", "'"}
         [] OTHER            -> s[p + k - 1] = pat[k]

\* re.sub(pat, repl, s): the leftmost matches, not overlapping, replaced
RECURSIVE ReSub(_, _, _)
ReSub(pat, repl, s) ==
  LET hits == {p \in 1..Len(s) : s[p] = pat[1] /\ PatAt(s, p, pat)}
  IN  IF hits = {} THEN s
      ELSE SubSeq(s, 1, Min(hits) - 1) \o repl
             \o ReSub(pat, repl, From(s, Min(hits) + Len(pat)))

ParaOpen == <<"<","p",">">>

ParaClose == <<"<","/","p",">">>

\* re.search(r'<p>([^<]+)</p>', s): the group of the leftmost match, or <<>>
FirstParagraph(s) ==
  LET ends(p) == {j \in (p + 3)..Len(s) : s[j] = "<"}
      hits == {p \in 1..Len(s) :
                 /\ HasAt(s, p, ParaOpen)
                 /\ ends(p) # {}
                 /\ Min(ends(p)) > p + 3
                 /\ HasAt(s, Min(ends(p)), ParaClose)}
  IN  IF hits = {} THEN <<>>
      ELSE SubSeq(s, Min(hits) + 3, Min({j \in (Min(hits) + 3)..Len(s) : s[j] = "<"}) - 1)

(***************************************************************************)
(* The element tree BeautifulSoup builds.  nodes[i] is the i-th node of    *)
(* the body in document order: tag is an element name or "#text" for a     *)
(* NavigableString, parent the index of its parent (0: the body), text    *)
(* the text an element starts with (or the string itself), src the src     *)
(* attribute of an img.                                                    *)
(***************************************************************************)
Node(tag, parent, text, src) == [tag |-> tag, parent |-> parent, text |-> text, src |-> src]

TagName(tag) ==
  CASE tag = "h1"     -> <<"h","1">>
    [] tag = "h2"     -> <<"h","2">>
    [] tag = "p"      -> <<"p">>
    [] tag = "div"    -> <<"d","i","v">>
    [] tag = "nav"    -> <<"n","a","v">>
    [] tag = "header" -> <<"h","e","a","d","e","r">>
    [] tag = "img"    -> <<"i","m","g">>

\* current.next_sibling, 0 for None
NextSibling(nodes, i) ==
  LET later == {j \in (i + 1)..Len(nodes) : nodes[j].parent = nodes[i].parent}
  IN  IF later = {} THEN 0 ELSE Min(later)

\* current.previous_sibling, 0 for None
PreviousSibling(nodes, i) ==
  LET earlier == {j \in 1..(i - 1) : nodes[j].parent = nodes[i].parent}
  IN  IF earlier = {} THEN 0 ELSE Max(earlier)

Children(nodes, i) == {j \in 1..Len(nodes) : nodes[j].parent = i}

RECURSIVE IsInside(_, _, _)
\* node j lies in the subtree of node i
IsInside(nodes, j, i) ==
  \/ j = i
  \/ j # 0 /\ IsInside(nodes, nodes[j].parent, i)

Subtree(nodes, i) == {j \in 1..Len(nodes) : IsInside(nodes, j, i)}

RECURSIVE Html(_, _)
RECURSIVE HtmlOfAll(_, _)
\* str(element): the markup of the element and of everything in it
Html(nodes, i) ==
  LET n == nodes[i]
  IN  CASE n.tag = "#text" -> n.text
        [] n.tag = "img"   -> <<"<","i","m","g"," ","s","r","c","=","\"">> \o n.src \o <<"\"","/",">">>
        [] OTHER           ->
             <<"<">> \o TagName(n.tag) \o <<">">> \o n.text
               \o HtmlOfAll(nodes, Children(nodes, i))
               \o <<"<", "/">> \o TagName(n.tag) \o <<">">>

HtmlOfAll(nodes, kids) ==
  IF kids = {} THEN <<>>
  ELSE Html(nodes, Min(kids)) \o HtmlOfAll(nodes, kids \ {Min(kids)})

\* body.find_all(['h1', 'h2']): the headings in document order
RECURSIVE FindAllHeadings(_, _)
FindAllHeadings(nodes, i) ==
  IF i > Len(nodes) THEN <<>>
  ELSE IF nodes[i].tag \in {"h1", "h2"}
         THEN <<i>> \o FindAllHeadings(nodes, i + 1)
         ELSE FindAllHeadings(nodes, i + 1)

\* heading.get_text(): the text of a heading
GetText(nodes, i) == nodes[i].text \o HtmlOfAll(nodes, {j \in Children(nodes, i) : nodes[j].tag = "#text"})

(***************************************************************************)
(* find_section_for_heading                                                *)
(***************************************************************************)
ClimbLimit == 10

\* for sec in sections_order.keys(): if sec.lower() in text.lower(): return sec
\* 0 when no key is found, else the position of the first key found
FirstSectionIn(sections_order, text) ==
  LET found == {k \in 1..Len(sections_order) :
                  Contains(Lower(sections_order[k]), Lower(text))}
  IN  IF found = {} THEN 0 ELSE Min(found)

RECURSIVE ClimbForSection(_, _, _, _)
\* the loop `for _ in range(10)`: the key returned from inside it, or <<>>
\* when the loop ends without returning
ClimbForSection(nodes, current, left, sections_order) ==
  IF left = 0 THEN <<>>
  ELSE IF PreviousSibling(nodes, current) # 0
    THEN LET prev == PreviousSibling(nodes, current)
             hit  == IF nodes[prev].tag = "#text"
                       THEN FirstSectionIn(sections_order, Strip(nodes[prev].text))
                       ELSE 0
         IN  IF hit # 0 THEN sections_order[hit]
             ELSE ClimbForSection(nodes, prev, left - 1, sections_order)
    ELSE IF nodes[current].parent = 0 THEN <<>>
         ELSE ClimbForSection(nodes, nodes[current].parent, left - 1, sections_order)

find_section_for_heading(nodes, heading, sections_order) ==
  LET climbed   == ClimbForSection(nodes, heading, ClimbLimit, sections_order)
      full_text == GetText(nodes, heading)
      hit       == IF "|" \in Range(full_text)
                     THEN FirstSectionIn(sections_order, Strip(FirstPart(full_text)))
                     ELSE 0
  IN  IF climbed # <<>> THEN climbed
      ELSE IF hit # 0 THEN sections_order[hit]
      ELSE <<>>

(***************************************************************************)
(* collect_content_until_next_heading                                      *)
(***************************************************************************)
SrcStatic == <<"s","r","c","=","QUOTE">> \o <<"s","t","a","t","i","c","_","i","m","a","g","e","s","/">>

SrcParentStatic == <<"s","r","c","=","QUOTE">> \o <<"ANY","ANY">> \o <<"/","s","t","a","t","i","c","_","i","m","a","g","e","s","/">>

SrcGrandparentStatic == <<"s","r","c","=","QUOTE">> \o <<"ANY","ANY","/","ANY","ANY">> \o <<"/","s","t","a","t","i","c","_","i","m","a","g","e","s","/">>

SrcImages == <<"s","r","c","=","\"","/","i","m","a","g","e","s","/">>

\* the three re.sub calls that repair the image paths of an element's markup
FixImagePaths(html) ==
  ReSub(SrcGrandparentStatic, SrcImages,
    ReSub(SrcParentStatic, SrcImages,
      ReSub(SrcStatic, SrcImages, html)))

\* `current` as a condition: None and the empty string are false
Truthy(nodes, current) ==
  /\ current # 0
  /\ ~(nodes[current].tag = "#text" /\ nodes[current].text = <<>>)

\* current == next_heading: the same element, or a tag of the same name,
\* attributes and contents
SameElement(nodes, current, next_heading) ==
  /\ current # 0
  /\ next_heading # 0
  /\ \/ current = next_heading
     \/ /\ nodes[current].tag # "#text"
        /\ nodes[current].tag = nodes[next_heading].tag
        /\ Html(nodes, current) = Html(nodes, next_heading)

RECURSIVE SiblingsUntil(_, _, _)
\* the nodes the while loop visits, in order
SiblingsUntil(nodes, current, next_heading) ==
  IF ~Truthy(nodes, current) \/ SameElement(nodes, current, next_heading) THEN <<>>
  ELSE <<current>> \o SiblingsUntil(nodes, NextSibling(nodes, current), next_heading)

\* the nodes the loop appends something for
IsCollected(nodes, i) ==
  /\ nodes[i].tag \notin {"nav", "header"}
  /\ nodes[i].tag = "#text" => Strip(nodes[i].text) # <<>>

\* what the loop appends to content_parts for node i
ContentPart(nodes, i) ==
  IF nodes[i].tag = "#text"
    THEN ParaOpen \o Strip(nodes[i].text) \o ParaClose
    ELSE FixImagePaths(Html(nodes, i))

RECURSIVE JoinLines(_)
\* '\n'.join(parts)
JoinLines(parts) ==
  IF parts = <<>> THEN <<>>
  ELSE IF Len(parts) = 1 THEN parts[1]
  ELSE parts[1] \o <<"\n">> \o JoinLines(Tail(parts))

\* the top-level nodes that make up the content collected for a heading
CollectedNodes(nodes, start_heading, next_heading) ==
  SelectSeq(SiblingsUntil(nodes, NextSibling(nodes, start_heading), next_heading),
            LAMBDA i : IsCollected(nodes, i))

collect_content_until_next_heading(nodes, start_heading, next_heading) ==
  LET kept == CollectedNodes(nodes, start_heading, next_heading)
  IN  JoinLines([k \in 1..Len(kept) |-> ContentPart(nodes, kept[k])])

(***************************************************************************)
(* create_article.  `files` is the set of slugs s for which                *)
(* output/articles/<s>.html exists.  The result is the article record      *)
(* returned (or none) and the files afterwards.  The page written to the   *)
(* file is template output and is not modelled, nor is the 'date' key,     *)
(* which holds the wall clock.                                             *)
(***************************************************************************)
MaxTitleLen == 150

TitleKeptLen == 147

MinTitleLen == 5

MinPromotedLen == 10

MaxSlugLen == 50

Ellipsis == <<".", ".", ".">>

\* the characters re.sub(r'[^\w\s-]', '', title) keeps
SlugChars ==
  Range(UpperChars) \cup Range(LowerChars) \cup Range(DigitChars)
    \cup {"_", "-", " ", "\t", "\n", "\r"}

\* title = re.sub(r'\s+', ' ', title).strip(), then the part after the last '|'
CleanTitle(title) ==
  LET cleaned == Strip(CollapseSpace(title))
  IN  IF "|" \in Range(cleaned) THEN Strip(LastPart(cleaned)) ELSE cleaned

\* a title that starts with a date gives way to the first paragraph of the content
PromoteTitle(title, content_html) ==
  LET potential_title == Strip(FirstParagraph(content_html))
  IN  IF /\ StartsWithDate(title)
         /\ Len(potential_title) > MinPromotedLen
         /\ ~IsDigit(potential_title[1])
        THEN potential_title
        ELSE title

\* if len(title) > 150: title = title[:147] + "..."
ShortenTitle(title) ==
  IF Len(title) > MaxTitleLen THEN Take(title, TitleKeptLen) \o Ellipsis ELSE title

FinalTitle(title, content_html) ==
  ShortenTitle(PromoteTitle(CleanTitle(title), content_html))

\* slug = re.sub(r'[^\w\s-]', '', title).strip().replace(' ', '-').lower()[:50]
\* slug = re.sub(r'-+', '-', slug)
BaseSlug(title) ==
  CollapseHyphen(Take(Lower(SpaceToHyphen(Strip(SelectChars(title, SlugChars)))), MaxSlugLen))

\* f"{base_slug}-{counter}"
Suffixed(base_slug, counter) == base_slug \o <<"-">> \o Decimal(counter)

RECURSIVE FreeSlug(_, _, _, _)
\* while os.path.exists(f'output/articles/{slug}.html'): ...
FreeSlug(slug, base_slug, counter, files) ==
  IF slug \in files
    THEN FreeSlug(Suffixed(base_slug, counter), base_slug, counter + 1, files)
    ELSE slug

\* the identifier taken as it is, without the look at the files: the collision
\* that the loop above rules out
UniqueSlugUnchecked(base_slug, files) == base_slug

\* the loop with its counter started at 2 instead of 1
UniqueSlugFromTwo(base_slug, files) == FreeSlug(base_slug, base_slug, 2, files)

UniqueSlug(base_slug, files) == FreeSlug(base_slug, base_slug, 1, files)

ArticlePath(slug) == <<"a","r","t","i","c","l","e","s","/">> \o slug \o <<".","h","t","m","l">>

create_article(title, section, content_html, files) ==
  LET final == FinalTitle(title, content_html)
      slug  == UniqueSlug(BaseSlug(final), files)
  IN  IF Len(final) < MinTitleLen
        THEN [none |-> TRUE, files |-> files]
        ELSE [none    |-> FALSE,
              article |-> [title   |-> final,
                           slug    |-> slug,
                           path    |-> ArticlePath(slug),
                           section |-> section],
              files   |-> files \cup {slug}]

(***************************************************************************)
(* parse_html_file.  A document is [branded, body, nodes]: whether its     *)
(* text names the publication, whether it has a body element, and the      *)
(* nodes of the body.  The result is the articles appended, the files      *)
(* afterwards and, as a log, for each article the heading it comes from,   *)
(* the length of the content collected for it and the files that existed   *)
(* when it was created.  `limit` is the number of headings the loop gets   *)
(* through: all of them, unless an exception ends the call.                *)
(***************************************************************************)
MinHeadingLen == 5

MinContentLen == 200

\* the heading after headings[i], 0 for None
NextHeading(headings, i) == IF i + 1 <= Len(headings) THEN headings[i + 1] ELSE 0

\* the text of the loop variable heading_text
HeadingText(nodes, heading) == Strip(GetText(nodes, heading))

\* the two `continue` tests of the loop
IsSkippedHeading(nodes, heading) ==
  \/ Len(HeadingText(nodes, heading)) < MinHeadingLen
  \/ IsPureDate(HeadingText(nodes, heading))

\* if len(content_html) > 200
\* the length test left out
AnyLength(content_html) == TRUE

IsLongEnough(content_html) == Len(content_html) > MinContentLen

RECURSIVE ParseHeadings(_, _, _, _, _, _)
ParseHeadings(nodes, headings, i, limit, sections_order, acc) ==
  IF i > limit THEN acc
  ELSE
    LET heading == headings[i]
        section == find_section_for_heading(nodes, heading, sections_order)
        content == collect_content_until_next_heading(nodes, heading, NextHeading(headings, i))
        made    == create_article(HeadingText(nodes, heading), section, content, acc.files)
        next    ==
          IF IsSkippedHeading(nodes, heading) \/ ~IsLongEnough(content) THEN acc
          ELSE IF made.none THEN [acc EXCEPT !.files = made.files]
          ELSE [articles |-> Append(acc.articles, made.article),
                log      |-> Append(acc.log, [heading |-> heading,
                                              length  |-> Len(content),
                                              before  |-> acc.files]),
                files    |-> made.files]
    IN  ParseHeadings(nodes, headings, i + 1, limit, sections_order, next)

\* the call with the loop cut short after `limit` headings
ParsePrefix(doc, limit, sections_order, files) ==
  IF ~doc.body THEN [articles |-> <<>>, log |-> <<>>, files |-> files]
  ELSE ParseHeadings(doc.nodes, FindAllHeadings(doc.nodes, 1), 1, limit, sections_order,
                     [articles |-> <<>>, log |-> <<>>, files |-> files])

NumHeadings(doc) == IF doc.body THEN Len(FindAllHeadings(doc.nodes, 1)) ELSE 0

parse_html_file(doc, sections_order, files) ==
  ParsePrefix(doc, NumHeadings(doc), sections_order, files)

(***************************************************************************)
(* The inputs of a run: the files of the extracted archive, the reading    *)
(* order its package declares, the link texts of its table of contents,    *)
(* and the content documents.                                              *)
(***************************************************************************)
\* the number of content documents of the archive
MaxFiles == 2

\* "c1.xhtml", "c2.xhtml", ...
ContentName(k) == <<"c">> \o Decimal(k) \o <<".","x","h","t","m","l">>

ContentNames == {ContentName(k) : k \in 1..MaxFiles}

\* the files of the archive's directory: the content documents, the
\* navigation document and a style sheet
ArchiveNames == ContentNames \cup {<<"n","a","v",".","x","h","t","m","l">>, <<"s","t","y","l","e",".","c","s","s">>}

\* the reading orders a package can declare for the content documents
SpineOrders ==
  {sp \in [1..MaxFiles -> ContentNames] : \A i, j \in 1..MaxFiles : i # j => sp[i] # sp[j]}

Business == <<"B","u","s","i","n","e","s","s">>

Obituary == <<"O","b","i","t","u","a","r","y">>

\* the link texts of the table of contents: none (no such file), or the sections
TocChoices == {<<>>, <<Business, <<"h","t","t","p",":","/","/","e","c","o","n","o","m","i","s","t",".","c","o","m">>, Business, Obituary>>}

Doc(nodes) == [branded |-> TRUE, body |-> TRUE, nodes |-> nodes]

\* a paragraph just long enough for an article, and one just too short
LongText == Fill("x", MinContentLen)

ShortText == Fill("x", MinContentLen - Len(ParaOpen) - Len(ParaClose))

Greenback == <<"G","r","e","e","n","b","a","c","k"," ","d","a","n","g","e","r">>

GreenbackLoud == <<"G","R","E","E","N","B","A","C","K"," ","d","a","n","g","e","r","!">>

GreenbackOne == <<"G","r","e","e","n","b","a","c","k"," ","d","a","n","g","e","r"," ","1">>

\* two titles that differ only after the part a slug keeps
LongTitleA == Fill("z", MaxSlugLen) \o <<"a">>

LongTitleB == Fill("z", MaxSlugLen) \o <<"b">>

Tariffs == <<"T","a","r","i","f","f","s"," ","b","i","t","e">>

TariffsHarder == <<"T","a","r","i","f","f","s"," ","b","i","t","e"," ","h","a","r","d","e","r">>

PipedTitle == <<"O","b","i","t","u","a","r","y"," ","|"," ","A"," ","l","i","f","e"," ","i","n"," ","f","u","l","l">>

Briefing == <<"B","R","I","E","F","I","N","G">>

PhotoEssay == <<"P","h","o","t","o"," ","e","s","s","a","y">>

PureDate == <<"M","a","y"," ","1","s","t",","," ","2","0","2","5">>

DatedTitle == <<"M","a","y"," ","1","2"," ","i","s","s","u","e">>

News == <<"N","e","w","s">>

GrandparentPhoto == <<".",".","/",".",".","/","s","t","a","t","i","c","_","i","m","a","g","e","s","/","p","h","o","t","o",".","j","p","g">>

ImagesPhoto == <<"i","m","a","g","e","s","/","p","h","o","t","o",".","j","p","g">>

LineBreak == <<"\n">>

None == <<>>

PlainDoc(title) ==
  Doc(<<Node("h1", 0, title, None), Node("p", 0, LongText, None)>>)

LongPairDoc ==
  Doc(<<Node("h1", 0, LongTitleA, None), Node("p", 0, LongText, None),
        Node("h1", 0, LongTitleB, None), Node("p", 0, LongText, None)>>)

\* a title followed at once by a title, and a title with a body of 200 characters
DroppedDoc ==
  Doc(<<Node("h1", 0, Greenback, None), Node("#text", 0, LineBreak, None),
        Node("h1", 0, GreenbackOne, None), Node("p", 0, ShortText, None)>>)

\* the second title inside a division that follows the first title's body
NestedDoc ==
  Doc(<<Node("h1", 0, GreenbackLoud, None), Node("p", 0, LongText, None),
        Node("div", 0, None, None),
        Node("h1", 3, GreenbackOne, None), Node("p", 3, LongText, None)>>)

\* a section name in front of the title, and one as text in front of a title
SectionedDoc ==
  Doc(<<Node("h1", 0, PipedTitle, None), Node("p", 0, LongText, None),
        Node("#text", 0, Business, None),
        Node("h1", 0, Tariffs, None), Node("p", 0, LongText, None)>>)

\* a second-level heading in capitals, then a title
LabelledDoc ==
  Doc(<<Node("h2", 0, Briefing, None), Node("p", 0, LongText, None),
        Node("h1", 0, Tariffs, None), Node("p", 0, LongText, None)>>)

\* two pictures of one name at different depths
GalleryDoc ==
  Doc(<<Node("h1", 0, PhotoEssay, None), Node("nav", 0, News, None),
        Node("img", 0, None, GrandparentPhoto), Node("img", 0, None, ImagesPhoto),
        Node("p", 0, LongText, None)>>)

\* a heading that is a date, one that starts with a date, one that is too short
DatedDoc ==
  Doc(<<Node("h1", 0, PureDate, None), Node("p", 0, LongText, None),
        Node("h1", 0, DatedTitle, None), Node("#text", 0, TariffsHarder, None),
        Node("p", 0, LongText, None),
        Node("h1", 0, News, None), Node("p", 0, LongText, None)>>)

NoBodyDoc == [branded |-> TRUE, body |-> FALSE, nodes |-> <<>>]

UnbrandedDoc == [PlainDoc(Greenback) EXCEPT !.branded = FALSE]

\* the content a document of the archive can have
DocSet ==
  {PlainDoc(Greenback), PlainDoc(GreenbackOne), LongPairDoc, DroppedDoc, NestedDoc,
   SectionedDoc, LabelledDoc, GalleryDoc, DatedDoc, NoBodyDoc, UnbrandedDoc}

(***************************************************************************)
(* main                                                                    *)
(***************************************************************************)
VARIABLES
  pc,               \* where main is
  spine,            \* the reading order the package declares
  toc_links,        \* the link texts of the table of contents
  sections_order,   \* the keys of sections_order, in insertion order
  html_files,       \* the list html_files
  position,         \* the index in html_files of the file the loop is at
  content,          \* the document each file held when it was parsed
  failed,           \* the files whose processing raised
  files,            \* the slugs s with output/articles/<s>.html on disk
  all_articles,     \* the list all_articles
  all_origin,       \* for each of all_articles, its file and its log entry
  handed,           \* the list unique_articles given to generate_index and generate_rss
  handed_origin     \* for each of handed, its file and its log entry

vars == <<pc, spine, toc_links, sections_order, html_files, position, content, failed,
          files, all_articles, all_origin, handed, handed_origin>>

TocMaxLen == 100

Http == <<"h","t","t","p">>

RECURSIVE TocKeys(_, _)
\* the loop over soup.find_all('a'): the keys added to `sections`, in order
TocKeys(links, keys) ==
  IF links = <<>> THEN keys
  ELSE LET text == Strip(Head(links))
       IN  IF /\ text # <<>>
              /\ Len(text) < TocMaxLen
              /\ ~HasAt(text, 1, Http)
              /\ text \notin Range(keys)
             THEN TocKeys(Tail(links), Append(keys, text))
             ELSE TocKeys(Tail(links), keys)

extract_toc_structure(links) == TocKeys(links, <<>>)

\* the code points of the characters of file names, in increasing order
CodeOrder == <<".">> \o DigitChars \o UpperChars \o <<"_">> \o LowerChars

Code(c) == CHOOSE k \in 1..Len(CodeOrder) : CodeOrder[k] = c

\* a < b as Python compares strings
StrLess(a, b) ==
  \/ Len(a) < Len(b) /\ Take(b, Len(a)) = a
  \/ \E p \in 1..Min({Len(a), Len(b)}) :
       /\ Take(a, p - 1) = Take(b, p - 1)
       /\ Code(a[p]) < Code(b[p])

RECURSIVE Sorted(_)
\* sorted(files)
Sorted(names) ==
  IF names = {} THEN <<>>
  ELSE LET least == CHOOSE n \in names : \A m \in names \ {n} : StrLess(n, m)
       IN  <<least>> \o Sorted(names \ {least})

EndsWith(s, suffix) == Len(s) >= Len(suffix) /\ From(s, Len(s) - Len(suffix) + 1) = suffix

\* the two tests a file name passes to enter html_files
IsContentFile(f) ==
  /\ \E ext \in {<<".","h","t","m","l">>, <<".","x","h","t","m","l">>, <<".","h","t","m">>} : EndsWith(f, ext)
  /\ ~\E x \in {<<"n","a","v">>, <<"c","o","v","e","r">>, <<"c","o","p","y","r","i","g","h","t">>} : Contains(x, Lower(f))

\* the os.walk loop over the one directory of the archive
CollectedFiles(names) == SelectSeq(Sorted(names), IsContentFile)

RECURSIVE Deduplicate(_, _, _, _)
\* the loop that keeps the first article of every slug: the positions kept
Deduplicate(articles, i, seen, kept) ==
  IF i > Len(articles) THEN kept
  ELSE IF articles[i].slug \notin seen
         THEN Deduplicate(articles, i + 1, seen \cup {articles[i].slug}, Append(kept, i))
         ELSE Deduplicate(articles, i + 1, seen, kept)

UniquePositions(articles) == Deduplicate(articles, 1, {}, <<>>)

CurrentFile == html_files[position]

Unread == [branded |-> FALSE, body |-> FALSE, nodes |-> <<>>]

Init ==
  /\ pc = "toc"
  /\ spine \in SpineOrders
  /\ toc_links \in TocChoices
  /\ sections_order = <<>>
  /\ html_files = <<>>
  /\ position = 1
  /\ content = [f \in ContentNames |-> Unread]
  /\ failed = {}
  /\ files = {}
  /\ all_articles = <<>>
  /\ all_origin = <<>>
  /\ handed = <<>>
  /\ handed_origin = <<>>

\* sections_order = extract_toc_structure('temp_epub')
ExtractToc ==
  /\ pc = "toc"
  /\ sections_order' = extract_toc_structure(toc_links)
  /\ pc' = "walk"
  /\ UNCHANGED <<spine, toc_links, html_files, position, content, failed, files,
                 all_articles, all_origin, handed, handed_origin>>

\* the loop that fills html_files
CollectHtmlFiles ==
  /\ pc = "walk"
  /\ html_files' = CollectedFiles(ArchiveNames)
  /\ position' = 1
  /\ pc' = "read"
  /\ UNCHANGED <<spine, toc_links, sections_order, content, failed, files,
                 all_articles, all_origin, handed, handed_origin>>

InLoop == pc = "read" /\ position <= Len(html_files)

\* the file does not name the publication: continue
SkipFile ==
  /\ InLoop
  /\ \E doc \in DocSet :
       /\ ~doc.branded
       /\ content' = [content EXCEPT ![CurrentFile] = doc]
  /\ position' = position + 1
  /\ UNCHANGED <<pc, spine, toc_links, sections_order, html_files, failed, files,
                 all_articles, all_origin, handed, handed_origin>>

\* articles = parse_html_file(...); all_articles.extend(articles)
ParseFile ==
  /\ InLoop
  /\ \E doc \in DocSet :
       /\ doc.branded
       /\ \E parsed \in {parse_html_file(doc, sections_order, files)} :
              /\ all_articles' = all_articles \o parsed.articles
              /\ all_origin' = all_origin \o
                   [k \in 1..Len(parsed.log) |->
                      [file    |-> CurrentFile,
                       heading |-> parsed.log[k].heading,
                       length  |-> parsed.log[k].length,
                       before  |-> parsed.log[k].before]]
              /\ files' = parsed.files
       /\ content' = [content EXCEPT ![CurrentFile] = doc]
  /\ position' = position + 1
  /\ UNCHANGED <<pc, spine, toc_links, sections_order, html_files, failed,
                 handed, handed_origin>>

\* the same failure without the try/except around the loop body: the run ends
FailReadAborts ==
  /\ InLoop
  /\ failed' = failed \cup {CurrentFile}
  /\ pc' = "exit"
  /\ UNCHANGED <<spine, toc_links, sections_order, html_files, position, content, files,
                 all_articles, all_origin, handed, handed_origin>>

\* open() or read() raises: the except clause prints and the loop goes on
FailRead ==
  /\ InLoop
  /\ failed' = failed \cup {CurrentFile}
  /\ position' = position + 1
  /\ UNCHANGED <<pc, spine, toc_links, sections_order, html_files, content, files,
                 all_articles, all_origin, handed, handed_origin>>

\* parse_html_file raises at one of its headings: the article files it has
\* written stay on disk, none of its articles reaches all_articles
FailParse ==
  /\ InLoop
  /\ \E doc \in DocSet :
       /\ doc.branded
       /\ \E done \in 0..(NumHeadings(doc) - 1) :
            files' = ParsePrefix(doc, done, sections_order, files).files
  /\ failed' = failed \cup {CurrentFile}
  /\ position' = position + 1
  /\ UNCHANGED <<pc, spine, toc_links, sections_order, html_files, content,
                 all_articles, all_origin, handed, handed_origin>>

LoopDone == pc = "read" /\ position > Len(html_files)

\* if not all_articles: sys.exit(1)
NoArticles ==
  /\ LoopDone
  /\ all_articles = <<>>
  /\ pc' = "exit"
  /\ UNCHANGED <<spine, toc_links, sections_order, html_files, position, content, failed,
                 files, all_articles, all_origin, handed, handed_origin>>

\* the loop that builds unique_articles, then generate_index and generate_rss
Publish ==
  /\ LoopDone
  /\ all_articles # <<>>
  /\ \E kept \in {UniquePositions(all_articles)} :
         /\ handed' = [k \in 1..Len(kept) |-> all_articles[kept[k]]]
         /\ handed_origin' = [k \in 1..Len(kept) |-> all_origin[kept[k]]]
  /\ pc' = "done"
  /\ UNCHANGED <<spine, toc_links, sections_order, html_files, position, content, failed,
                 files, all_articles, all_origin>>

Next ==
  \/ ExtractToc
  \/ CollectHtmlFiles
  \/ SkipFile
  \/ ParseFile
  \/ FailRead
  \/ FailParse
  \/ NoArticles
  \/ Publish

Spec == Init /\ [][Next]_vars

(***************************************************************************)
(* What the claims speak of.                                               *)
(***************************************************************************)
Articles == 1..Len(all_articles)

Handed == 1..Len(handed)

\* the nodes of the document an article of all_articles comes from
NodesOf(o) == content[o.file].nodes

\* the place of a file in the reading order the package declares
SpinePlace(f) == CHOOSE i \in 1..MaxFiles : spine[i] = f

\* the place of a file in html_files
FilePlace(f) == CHOOSE i \in 1..Len(html_files) : html_files[i] = f

\* the heading after `heading` in document order, 0 when there is none
HeadingAfter(nodes, heading) ==
  LET later == {h \in (heading + 1)..Len(nodes) : nodes[h].tag \in {"h1", "h2"}}
  IN  IF later = {} THEN 0 ELSE Min(later)

\* the first element or non-blank text after a node among its siblings
RECURSIVE NextVisible(_, _)
NextVisible(nodes, i) ==
  LET next == NextSibling(nodes, i)
  IN  IF next = 0 THEN 0
      ELSE IF nodes[next].tag = "#text" /\ Strip(nodes[next].text) = <<>>
             THEN NextVisible(nodes, next)
             ELSE next

\* a heading followed at once by another heading
FollowedByHeading(nodes, heading) ==
  /\ NextVisible(nodes, heading) # 0
  /\ nodes[NextVisible(nodes, heading)].tag \in {"h1", "h2"}

\* every node of the content collected for a heading
BodyNodes(nodes, heading) ==
  UNION {Subtree(nodes, i) :
           i \in Range(CollectedNodes(nodes, heading, HeadingAfter(nodes, heading)))}

\* a is the start of b
IsPrefix(a, b) == Len(a) <= Len(b) /\ SubSeq(b, 1, Len(a)) = a

\* the file name of a reference: what follows its last '/'
BaseName(src) ==
  LET slashes == {i \in 1..Len(src) : src[i] = "/"}
  IN  IF slashes = {} THEN src ELSE From(src, Max(slashes) + 1)

\* the sections of the allow-list of the specification's example, and business
AllowList == {<<"l","e","a","d","e","r","s">>, <<"b","r","i","e","f","i","n","g">>, <<"c","h","i","n","a">>, <<"b","u","s","i","n","e","s","s">>}

(***************************************************************************)
(* C1: no two article records returned in a run have the same slug,        *)
(* whatever the titles: the same title twice, titles that differ in case   *)
(* or punctuation only, titles that differ after the fiftieth character.   *)
(***************************************************************************)
NoSharedSlug ==
  \A i, j \in Articles : i # j => all_articles[i].slug # all_articles[j].slug

\* two articles handed over whose different titles give the same identifier
SlugCollisionHappened ==
  /\ pc = "done"
  /\ \E i, j \in Handed :
       /\ i < j
       /\ handed[i].title # handed[j].title
       /\ BaseSlug(handed[i].title) = BaseSlug(handed[j].title)

(***************************************************************************)
(* C2: the articles handed to the index and RSS stage are in the order of  *)
(* the package's spine and, within one document, in the order of their     *)
(* headings.                                                               *)
(***************************************************************************)
HandedInSpineOrder ==
  pc = "done" =>
    \A i, j \in Handed :
      i < j =>
        \/ SpinePlace(handed_origin[i].file) < SpinePlace(handed_origin[j].file)
        \/ /\ handed_origin[i].file = handed_origin[j].file
           /\ handed_origin[i].heading < handed_origin[j].heading

(***************************************************************************)
(* C3: the section is carried from one document to the next: when the      *)
(* last heading of a document gave an article with a section, the article  *)
(* of a first-level heading that opens the next document, with nothing in  *)
(* front of it, has that section too.                                      *)
(***************************************************************************)
SectionCarriedOver ==
  \A k \in Articles :
    k > 1 =>
      LET a == all_origin[k - 1]
          b == all_origin[k]
      IN  ( /\ FilePlace(b.file) = FilePlace(a.file) + 1
            /\ all_articles[k - 1].section # <<>>
            /\ HeadingAfter(NodesOf(a), a.heading) = 0
            /\ b.heading = 1
            /\ NodesOf(b)[1].tag = "h1" )
          => all_articles[k].section = all_articles[k - 1].section

(***************************************************************************)
(* C4: an article whose collected body is not longer than the minimum      *)
(* length is never emitted; a title followed at once by another title      *)
(* gives no article record and, in a run where nothing raised, no file.    *)
(***************************************************************************)
NoShortArticle ==
  /\ \A k \in Articles :
       /\ all_origin[k].length > MinContentLen
       /\ ~FollowedByHeading(NodesOf(all_origin[k]), all_origin[k].heading)
  /\ failed = {} => files = {all_articles[k].slug : k \in Articles}

\* a document was parsed in which a title that passes the title tests is
\* followed at once by another title, and the run went on to hand articles over
ShortArticleDropped ==
  /\ pc = "done"
  /\ \E f \in ContentNames \ failed :
       /\ content[f].branded
       /\ \E h \in 1..Len(content[f].nodes) :
            /\ content[f].nodes[h].tag = "h1"
            /\ ~IsSkippedHeading(content[f].nodes, h)
            /\ FollowedByHeading(content[f].nodes, h)

(***************************************************************************)
(* C5: an article whose section, trimmed and in lower case, is not on the  *)
(* allow-list is not among the articles handed to the index and RSS stage. *)
(***************************************************************************)
OnlyAllowedSections ==
  \A k \in Handed :
    handed[k].section # <<>> => Lower(Strip(handed[k].section)) \in AllowList

(***************************************************************************)
(* C6: a document whose reading or parsing raises is skipped and nothing   *)
(* else: every turn of the loop, failing or not, stays in the loop, moves  *)
(* to the next file and keeps the articles gathered so far; the run ends   *)
(* only after the last file, and hands over all the articles gathered.     *)
(***************************************************************************)
FailureIsolated ==
  /\ [][InLoop => /\ pc' = "read"
                  /\ position' = position + 1
                  /\ IsPrefix(all_articles, all_articles')]_vars
  /\ [](pc \in {"done", "exit"} => position > Len(html_files))
  /\ [](pc = "done" => handed = all_articles)

\* articles of a document that comes after a failed one were handed over
LaterDocumentEmitted ==
  /\ pc = "done"
  /\ \E k \in Handed :
       \E f \in failed : FilePlace(f) < FilePlace(handed_origin[k].file)

(***************************************************************************)
(* C7 as claimed: a slug that is not the identifier derived from the title *)
(* is that identifier with the article's ordinal position in the output    *)
(* sequence appended (counted from one, or from zero).                     *)
(***************************************************************************)
SuffixIsOrdinal ==
  \A k \in Handed :
    LET base == BaseSlug(handed[k].title)
    IN  handed[k].slug # base =>
          handed[k].slug \in {Suffixed(base, k), Suffixed(base, k - 1)}

(***************************************************************************)
(* C7 as amended: a slug is the identifier derived from the title when no  *)
(* file of that name exists; otherwise it is the identifier with -n        *)
(* appended, n being the least of 1, 2, ... for which no such file exists. *)
(***************************************************************************)
SuffixIsFirstFree ==
  \A k \in Articles :
    LET base   == BaseSlug(all_articles[k].title)
        before == all_origin[k].before
    IN  IF base \notin before
          THEN all_articles[k].slug = base
          ELSE \E n \in 1..Cardinality(before) :
                 /\ all_articles[k].slug = Suffixed(base, n)
                 /\ \A m \in 1..n : Suffixed(base, m) \in before <=> m < n

\* the third or a later article got the suffix 1
LateArticleSuffixedOne ==
  \E k \in Articles :
    /\ k >= 3
    /\ BaseSlug(all_articles[k].title) \in all_origin[k].before
    /\ all_articles[k].slug = Suffixed(BaseSlug(all_articles[k].title), 1)

(***************************************************************************)
(* C8: two image references of the same file name in the bodies of         *)
(* articles are rewritten to the same reference, whatever their depth.     *)
(***************************************************************************)
ImagesRewrittenAlike ==
  \A k, l \in Articles :
    LET kn == NodesOf(all_origin[k])
        ln == NodesOf(all_origin[l])
    IN  \A i \in BodyNodes(kn, all_origin[k].heading) :
          \A j \in BodyNodes(ln, all_origin[l].heading) :
            ( /\ kn[i].tag = "img"
              /\ ln[j].tag = "img"
              /\ BaseName(kn[i].src) = BaseName(ln[j].src) )
            => FixImagePaths(Html(kn, i)) = FixImagePaths(Html(ln, j))

(***************************************************************************)
(* C9: only first-level headings start articles: no article comes from a   *)
(* second-level heading.                                                   *)
(***************************************************************************)
OnlyTitlesStartArticles ==
  \A k \in Articles : NodesOf(all_origin[k])[all_origin[k].heading].tag = "h1"

(***************************************************************************)
(* C10: the body of an article holds only nodes after its title and        *)
(* before the next heading of the document, and no heading; so no node is  *)
(* in the bodies of two articles.                                          *)
(***************************************************************************)
BodyEndsAtNextHeading ==
  /\ \A k \in Articles :
       LET nodes == NodesOf(all_origin[k])
           next  == HeadingAfter(nodes, all_origin[k].heading)
       IN  \A i \in BodyNodes(nodes, all_origin[k].heading) :
             /\ nodes[i].tag \notin {"h1", "h2"}
             /\ i > all_origin[k].heading
             /\ next # 0 => i < next
  /\ \A k, l \in Articles :
       (k # l /\ all_origin[k].file = all_origin[l].file) =>
         BodyNodes(NodesOf(all_origin[k]), all_origin[k].heading)
           \cap BodyNodes(NodesOf(all_origin[l]), all_origin[l].heading) = {}

====
